---------------------------- MODULE Spec2Model ----------------------------
(***************************************************************************)
(* TTVClips: the caption chunk segmenter, the subtitle writer and the      *)
(* filter-graph planner of modules/processing/ffmpeg_processor.py.         *)
(*                                                                         *)
(* Text is a sequence of one-character strings.  Time is an integer number *)
(* of ticks of 1/600 second (0.1 s = 60 ticks), so that every input drawn  *)
(* on the 0.1 s grid and every quotient duration / len(chunks) for up to   *)
(* six chunks is an exact integer.  Sums and differences of times are      *)
(* taken as exact (a float sum such as 2.3 + 0.3 may differ from the grid  *)
(* value in its last bit); in seconds_to_srt_time the IEEE-754 rounding of *)
(* the double nearest to the grid value decides the digits written.        *)
(***************************************************************************)
EXTENDS Integers, Sequences, FiniteSets, TLC

VARIABLES
    words_data,        \* SpecChunks: argument of _create_smart_chunks
    text_words,        \* SpecChunks: argument of _create_smart_text_chunks
    chunks,            \* SpecChunks: result of _create_smart_chunks
    text_chunks,       \* SpecChunks: result of _create_smart_text_chunks
    chunk_pc,          \* SpecChunks: "timed" | "text" (call pending) | "done"
    subtitle_data,     \* create_subtitle_file: the transcript (list of segments)
    subtitle_chunks,   \* create_subtitle_file: the cue list being built
    sorted_chunks,     \* the cue list as line 243 left it, before the overlap pass
    seg_i,             \* 1-based index of the next segment of the loop of line 183
    fix_i,             \* 1-based index i of the overlap loop of line 246
    srt_file,          \* lines written to output_path; <<>> while not written
    sub_ret,           \* return value: "none" (still running) | "True" | "False"
    sub_pc,            \* "call" | "collect" | "fix" | "done"
    args,              \* process_clip: its arguments
    config,            \* process_clip: self.config (STYLE, ENABLE_WATERMARK, WATERMARK_TEXT)
    world,             \* process_clip: what the file system and ffprobe answer
    video_info,        \* process_clip: result of get_video_info
    filters,           \* process_clip: the list of filter stages
    title_lines,       \* process_clip: result of _split_title_text
    current_output,    \* process_clip: pad after the watermark step
    final_output,      \* process_clip: pad given to -map
    temp_subtitle,     \* the temp_subtitles_<pid>.srt file: "absent" or its lines
    cmd,               \* process_clip: the encoder command (filter_complex, maps)
    clip_ret,          \* process_clip: "none" (running) | "output_path" | "None"
    clip_pc,           \* position in process_clip
    input_exists,      \* process_clip: the raw file at input_path is on disk
    returncode,        \* process_clip: how the encoder ended ("none" before)
    fn_text,           \* SpecTitle: the text given to the title function
    fn_font_size,      \* SpecTitle: font_size of _split_title_text
    fn_video_width,    \* SpecTitle: video_width of _split_title_text
    fn_meme_style,     \* SpecTitle: title_style.STYLE == 'meme'
    fn_result,         \* SpecTitle: what the call returned
    fn_again,          \* SpecTitle: _clean_title_text of fn_result
    fn_pc,             \* SpecTitle: "clean" | "split" (call pending) | "cleaned" | ...
    par_data,          \* SpecPar: subtitle_data of each of the two process_clip calls
    par_pc,            \* SpecPar: position of each call
    par_filter,        \* SpecPar: the call put a subtitles stage into its filter list
    par_read,          \* SpecPar: what the encoder of each call found at the subtitle path
    par_ret,           \* SpecPar: "none" (running) | "output_path" | "None"
    par_srt,           \* SpecPar: the file temp_subtitles_<pid>.srt of the process
    pipe_n,            \* SpecPipe: len(clips_to_process)
    pipe_subs,         \* SpecPipe: ENABLE_SUBTITLES
    pipe_i,            \* SpecPipe: index of the clip the loop is at
    pipe_subtitle,     \* SpecPipe: clip_data['subtitle_data'] per clip: "unset" | "data" | "None"
    pipe_rendered,     \* SpecPipe: result of _render_clip per clip: "none" | "path" | "None"
    pipe_pc            \* SpecPipe: position in process_clips

chunkVars == <<words_data, text_words, chunks, text_chunks, chunk_pc>>
subVars == <<subtitle_data, subtitle_chunks, sorted_chunks, seg_i, fix_i,
             srt_file, sub_ret, sub_pc>>
clipVars == <<args, config, world, video_info, filters, title_lines, current_output,
              final_output, temp_subtitle, cmd, clip_ret, clip_pc, input_exists, returncode>>
titleVars == <<fn_text, fn_font_size, fn_video_width, fn_meme_style, fn_result, fn_again, fn_pc>>
parVars == <<par_data, par_pc, par_filter, par_read, par_ret, par_srt>>
pipeVars == <<pipe_n, pipe_subs, pipe_i, pipe_subtitle, pipe_rendered, pipe_pc>>
vars == <<chunkVars, subVars, clipVars, titleVars, parVars, pipeVars>>
\* what the chunker calls leave alone
notChunk == <<subVars, clipVars, titleVars, parVars, pipeVars>>
\* what create_subtitle_file leaves alone
notSub   == <<chunkVars, clipVars, titleVars, parVars, pipeVars>>
\* what process_clip leaves alone
notClip  == <<chunkVars, subVars, titleVars, parVars, pipeVars>>
\* what the title functions leave alone
notTitle == <<chunkVars, subVars, clipVars, parVars, pipeVars>>
\* what two process_clip calls in one process leave alone
notPar   == <<chunkVars, subVars, clipVars, titleVars, pipeVars>>
\* what process_clips leaves alone
notPipe  == <<chunkVars, subVars, clipVars, titleVars, parVars>>

-----------------------------------------------------------------------------
(* Python string helpers *)

\* str.isspace for one character (the transcripts hold spaces only)
IsSpace(c) == c = " "

RECURSIVE LStrip(_)
LStrip(s) ==
    IF s = <<>> THEN <<>>
    ELSE IF IsSpace(Head(s)) THEN LStrip(Tail(s)) ELSE s

RECURSIVE RStrip(_)
RStrip(s) ==
    IF s = <<>> THEN <<>>
    ELSE IF IsSpace(s[Len(s)]) THEN RStrip(SubSeq(s, 1, Len(s) - 1)) ELSE s

\* str.strip()
Strip(s) == RStrip(LStrip(s))

RECURSIVE SplitFrom(_, _, _)
SplitFrom(s, cur, acc) ==
    IF s = <<>> THEN (IF cur = <<>> THEN acc ELSE Append(acc, cur))
    ELSE IF IsSpace(Head(s))
         THEN SplitFrom(Tail(s), <<>>, IF cur = <<>> THEN acc ELSE Append(acc, cur))
         ELSE SplitFrom(Tail(s), Append(cur, Head(s)), acc)

\* str.split() with no argument: runs of whitespace separate, no empty words
Split(s) == SplitFrom(s, <<>>, <<>>)

RECURSIVE Join(_)
\* ' '.join(ws)
Join(ws) ==
    IF ws = <<>> THEN <<>>
    ELSE IF Len(ws) = 1 THEN ws[1]
    ELSE ws[1] \o <<" ">> \o Join(Tail(ws))

UpperChar(c) ==
    CASE c = "a" -> "A"
      [] c = "b" -> "B"
      [] c = "c" -> "C"
      [] c = "z" -> "Z"
      [] OTHER -> c

\* str.upper()
Upper(s) == [i \in 1..Len(s) |-> UpperChar(s[i])]

\* the string of n copies of c
Rep(c, n) == [i \in 1..n |-> c]

RECURSIVE Flatten(_)
\* concatenation of a list of lists
Flatten(ss) == IF ss = <<>> THEN <<>> ELSE Head(ss) \o Flatten(Tail(ss))

Last(s) == s[Len(s)]

Max(a, b) == IF a >= b THEN a ELSE b
Min(a, b) == IF a <= b THEN a ELSE b

-----------------------------------------------------------------------------
(* Constants of the segmenter, in ticks and characters *)

MaxChunkWords == 4      \* len(current_chunk) < 4
MaxChunkChars == 20     \* len(test_text) > 20
PauseGap      == 120    \* gap > 0.2
MaxChunkSpan  == 900    \* ... > 1.5
MinDisplay    == 300    \* duration < 0.5, max(0.5, chunk_duration)
MinAfterFix   == 180    \* current_chunk['start'] + 0.3
FixGap        == 60     \* gap = 0.1

-----------------------------------------------------------------------------
(* _create_smart_chunks *)

\* ' '.join([w['word'].strip() for w in ws])
JoinWords(ws) == Join([k \in 1..Len(ws) |-> Strip(ws[k].word)])

RECURSIVE GrowChunk(_, _, _, _)
\* the inner while loop; j is the 1-based index of the next candidate word
GrowChunk(wd, current_chunk, current_text, j) ==
    IF j <= Len(wd) /\ Len(current_chunk) < MaxChunkWords
    THEN LET test_text == current_text \o <<" ">> \o Strip(wd[j].word)
         IN  IF wd[j].start - wd[j-1].end > PauseGap
             THEN [chunk |-> current_chunk, text |-> current_text, j |-> j]
             ELSE IF wd[j].end - current_chunk[1].start > MaxChunkSpan
             THEN [chunk |-> current_chunk, text |-> current_text, j |-> j]
             ELSE IF Len(test_text) > MaxChunkChars
             THEN [chunk |-> current_chunk, text |-> current_text, j |-> j]
             ELSE GrowChunk(wd, Append(current_chunk, wd[j]), test_text, j + 1)
    ELSE [chunk |-> current_chunk, text |-> current_text, j |-> j]

AbsorbOrphan_NoFit(wd, g) ==
    LET remaining_after_chunk == Len(wd) - (g.j - 1)
        taken == [chunk |-> Append(g.chunk, wd[g.j]), text |-> g.text, j |-> g.j + 1]
    IN  IF remaining_after_chunk = 1 /\ Len(g.chunk) < MaxChunkWords THEN taken
        ELSE IF remaining_after_chunk = 2 /\ Len(g.chunk) = 1 THEN taken
        ELSE g

\* "Smart orphan prevention": g is the state after the inner loop
AbsorbOrphan(wd, g) ==
    LET remaining_after_chunk == Len(wd) - (g.j - 1)
        fits == Len(g.text \o <<" ">> \o Strip(wd[g.j].word)) <= MaxChunkChars
        taken == [chunk |-> Append(g.chunk, wd[g.j]), text |-> g.text, j |-> g.j + 1]
    IN  IF remaining_after_chunk = 1 /\ Len(g.chunk) < MaxChunkWords
        THEN (IF fits THEN taken ELSE g)
        ELSE IF remaining_after_chunk = 2 /\ Len(g.chunk) = 1
        THEN (IF fits THEN taken ELSE g)
        ELSE g

RECURSIVE ChunkLoop(_, _, _)
\* the outer while loop; i is the 1-based index of the next unconsumed word
ChunkLoop(wd, i, acc) ==
    IF i > Len(wd) THEN acc
    ELSE LET g == GrowChunk(wd, <<wd[i]>>, Strip(wd[i].word), i + 1)
             o == AbsorbOrphan(wd, g)
         IN  ChunkLoop(wd, o.j, Append(acc, o.chunk))

create_smart_chunks_CutPhrase(wd) ==
    IF wd = <<>> THEN <<>>
    ELSE IF Len(wd) > 3 /\ Len(JoinWords(wd)) <= MaxChunkChars THEN <<SubSeq(wd, 1, MaxChunkWords)>>
    ELSE ChunkLoop(wd, 1, <<>>)

\* lines 279-339
create_smart_chunks(wd) ==
    IF wd = <<>> THEN <<>>
    ELSE IF Len(wd) > 3 /\ Len(JoinWords(wd)) <= MaxChunkChars THEN <<wd>>
    ELSE ChunkLoop(wd, 1, <<>>)

-----------------------------------------------------------------------------
(* _create_smart_text_chunks *)

FitsText(ws) == Len(Join(ws)) <= MaxChunkChars

RECURSIVE TakeFitting(_, _, _, _)
\* the for loop of the "more than 4 words" branch: words[j..hi] while they fit
TakeFitting(words, j, hi, current_chunk) ==
    IF j > hi THEN current_chunk
    ELSE IF FitsText(Append(current_chunk, words[j]))
         THEN TakeFitting(words, j + 1, hi, Append(current_chunk, words[j]))
         ELSE current_chunk

RECURSIVE TextChunkLoop(_, _, _)
\* the while loop; i is the 1-based index of the next unconsumed word
TextChunkLoop(words, i, acc) ==
    LET n == Len(words)
        remaining == n - (i - 1)
        W(a, b) == SubSeq(words, a, b)
    IN  IF i > n THEN acc
        ELSE IF remaining = 1
        THEN IF acc /= <<>> /\ Len(Join(Last(acc)) \o <<" ">> \o words[i]) <= MaxChunkChars
             THEN [acc EXCEPT ![Len(acc)] = Append(@, words[i])]
             ELSE Append(acc, <<words[i]>>)
        ELSE IF remaining = 2
        THEN IF FitsText(W(i, i + 1))
             THEN Append(acc, W(i, i + 1))
             ELSE acc \o << <<words[i]>>, <<words[i + 1]>> >>
        ELSE IF remaining = 3
        THEN IF FitsText(W(i, i + 2))
             THEN Append(acc, W(i, i + 2))
             ELSE IF FitsText(W(i, i + 1))
             THEN acc \o << W(i, i + 1), <<words[i + 2]>> >>
             ELSE acc \o << <<words[i]>>, <<words[i + 1]>>, <<words[i + 2]>> >>
        ELSE IF remaining = 4
        THEN IF FitsText(W(i, i + 3))
             THEN Append(acc, W(i, i + 3))
             ELSE IF FitsText(W(i, i + 1)) /\ FitsText(W(i + 2, i + 3))
             THEN acc \o << W(i, i + 1), W(i + 2, i + 3) >>
             ELSE TextChunkLoop(words, i + 1, Append(acc, <<words[i]>>))
        ELSE LET fitting == TakeFitting(words, i, Min(i + 3, n), <<>>)
                 current_chunk == IF fitting = <<>> THEN <<words[i]>> ELSE fitting
             IN  TextChunkLoop(words, i + Len(current_chunk), Append(acc, current_chunk))

create_smart_text_chunks(words) ==
    IF words = <<>> THEN <<>>
    ELSE IF Len(words) > 3 /\ FitsText(words) THEN <<words>>
    ELSE IF Len(words) <= 3 THEN <<words>>
    ELSE TextChunkLoop(words, 1, <<>>)

-----------------------------------------------------------------------------
(* _seconds_to_srt_time *)

TicksPerSec == 600

RECURSIVE Pow2(_)
Pow2(k) == IF k = 0 THEN 1 ELSE 2 * Pow2(k - 1)

RECURSIVE Pow2Mod1000(_)
Pow2Mod1000(k) == IF k = 0 THEN 1 ELSE (2 * Pow2Mod1000(k - 1)) % 1000

RECURSIVE ExpUp(_, _)
\* the largest e >= 0 with 1000 * 2^e <= n, for n >= 1000
ExpUp(n, e) == IF 1000 * Pow2(e + 1) <= n THEN ExpUp(n, e + 1) ELSE e

RECURSIVE ExpDown(_, _)
\* minus the smallest k > 0 with n * 2^k >= 1000, for 0 < n < 1000
ExpDown(n, k) == IF n * Pow2(k) >= 1000 THEN 0 - k ELSE ExpDown(n, k + 1)

\* the binary exponent of the double nearest to n/1000: 2^e <= n/1000 < 2^(e+1)
DoubleExp(n) == IF n >= 1000 THEN ExpUp(n, 0) ELSE ExpDown(n, 1)

\* the exponent of the doubles just below the integer m >= 1
BelowExp(m) ==
    IF m = 1 THEN 0 - 1 ELSE CHOOSE l \in 0..9 : Pow2(l) < m /\ m <= Pow2(l + 1)

\* int((seconds % 1) * 1000) where seconds is the double nearest to n/1000,
\* n a whole number of milliseconds.  With a 53-bit significand the double is
\* n/1000 - r * 2^(e-52) / 1000 when r = n * 2^(52-e) mod 1000 is below 500
\* (rounded down) and above n/1000 otherwise; seconds % 1 is exact; the
\* product with 1000 is rounded to the nearest double (ties to even, which
\* is the integer), so it stays below the integer m = n mod 1000, and int()
\* yields m - 1, exactly when r * 2^(e-52) exceeds half the spacing
\* 2^(l-52) of the doubles just below m.
DoubleMillis(n) ==
    LET m == n % 1000
    IN  IF m = 0 THEN 0
        ELSE LET e == DoubleExp(n)
                 r == (m * Pow2Mod1000(52 - e)) % 1000
                 d == e + 1 - BelowExp(m)
                 below == IF d >= 0 THEN r * Pow2(d) > 1 ELSE r > Pow2(0 - d)
             IN  IF 0 < r /\ r < 500 /\ below THEN m - 1 ELSE m

\* int((seconds % 1) * 1000) for seconds = t ticks: a value that is no whole
\* number of milliseconds is at least 1/3 ms away from one, far more than
\* the rounding error, and is truncated as the exact value is
Millis(t) ==
    IF (5 * t) % 3 = 0 THEN DoubleMillis((5 * t) \div 3)
    ELSE ((5 * t) \div 3) % 1000

DigitChar(d) == <<"0", "1", "2", "3", "4", "5", "6", "7", "8", "9">>[d + 1]

RECURSIVE Decimal(_)
\* str(n) for n >= 0
Decimal(n) == IF n < 10 THEN <<DigitChar(n)>> ELSE Append(Decimal(n \div 10), DigitChar(n % 10))

\* f"{n:0{w}d}" for n >= 0
ZeroPad(n, w) ==
    LET ds == Decimal(n) IN IF Len(ds) < w THEN Rep("0", w - Len(ds)) \o ds ELSE ds

\* line 277: the f-string, for whole seconds and milliseconds already computed
srt_stamp(whole, millis) ==
    LET hours   == whole \div 3600
        minutes == (whole % 3600) \div 60
        secs    == whole % 60
    IN  ZeroPad(hours, 2) \o <<":">> \o ZeroPad(minutes, 2) \o <<":">>
          \o ZeroPad(secs, 2) \o <<",">> \o ZeroPad(millis, 3)

\* _seconds_to_srt_time(n / 1000) for a whole number n of milliseconds
seconds_to_srt_time_ms(n) == srt_stamp(n \div 1000, DoubleMillis(n))

\* _seconds_to_srt_time(t / 600) for a time of t ticks
seconds_to_srt_time(t) == srt_stamp(t \div TicksPerSec, Millis(t))

-----------------------------------------------------------------------------
(* create_subtitle_file *)

\* lines 194-211: the cue of one chunk of a word-timed segment
WordCue(chunk_words) ==
    LET start_time == chunk_words[1].start
        end_time   == Last(chunk_words).end
        duration   == end_time - start_time
    IN  [text  |-> Upper(JoinWords(chunk_words)),
         start |-> start_time,
         end   |-> IF duration < MinDisplay THEN start_time + MinDisplay ELSE end_time]

\* lines 214-240: the cues of a segment without word timing
FallbackCues(segment) ==
    LET text       == Strip(segment.text)
        start_time == segment.start
        end_time   == segment.end
        duration   == end_time - start_time
        cs         == create_smart_text_chunks(Split(text))
    IN  IF cs = <<>> THEN <<>>
        ELSE LET chunk_duration == Max(MinDisplay, duration \div Len(cs))
             IN  [c \in 1..Len(cs) |->
                    LET chunk_start == start_time + (c - 1) * chunk_duration
                    IN  [text  |-> Upper(Join(cs[c])),
                         start |-> chunk_start,
                         end   |-> Min(chunk_start + chunk_duration, end_time)]]

\* lines 217-218: segment['start'] or segment['end'] raises KeyError, on the
\* path of a segment with text and without word timing
Raises(segment) ==
    /\ Strip(segment.text) /= <<>>
    /\ segment.words = <<>>
    /\ ("start" \notin DOMAIN segment \/ "end" \notin DOMAIN segment)

\* lines 184-240: the body of the loop over the segments, when it does not raise
SegmentCues(segment) ==
    IF Strip(segment.text) = <<>> THEN <<>>
    ELSE IF segment.words /= <<>>
    THEN LET cs == create_smart_chunks(segment.words)
         IN  [c \in 1..Len(cs) |-> WordCue(cs[c])]
    ELSE FallbackCues(segment)

RECURSIVE InsertByStart(_, _)
\* c put behind every cue of the sorted list that does not start later
InsertByStart(sorted, c) ==
    IF sorted = <<>> THEN <<c>>
    ELSE IF Last(sorted).start <= c.start THEN Append(sorted, c)
    ELSE Append(InsertByStart(SubSeq(sorted, 1, Len(sorted) - 1), c), Last(sorted))

RECURSIVE SortByStart(_)
\* line 243: list.sort(key=start), a stable sort
SortByStart(cs) ==
    IF cs = <<>> THEN <<>>
    ELSE InsertByStart(SortByStart(SubSeq(cs, 1, Len(cs) - 1)), Last(cs))

\* FixPair resolving the overlap by delaying the next cue instead
FixPair_PushNext(cs, i) ==
    IF cs[i].end > cs[i + 1].start
    THEN [cs EXCEPT ![i + 1].start = cs[i].end + FixGap]
    ELSE cs

\* lines 247-254: one iteration of the overlap loop, for the pair i, i+1
FixPair(cs, i) ==
    IF cs[i].end > cs[i + 1].start
    THEN [cs EXCEPT ![i].end = Max(cs[i].start + MinAfterFix, cs[i + 1].start - FixGap)]
    ELSE cs

\* lines 259-264: the four lines written for cue number i
SrtEntry(i, chunk) ==
    << Decimal(i),
       seconds_to_srt_time(chunk.start) \o <<" ", "-", "-", ">", " ">>
           \o seconds_to_srt_time(chunk.end),
       chunk.text,
       <<>> >>

\* lines 257-264
SrtLines(cs) == Flatten([i \in 1..Len(cs) |-> SrtEntry(i, cs[i])])

\* lines 183-240: the whole loop over the segments
CollectCues(data) == Flatten([k \in 1..Len(data) |-> SegmentCues(data[k])])

RECURSIVE FixFrom(_, _)
\* lines 246-254: the iterations i, i+1, ... of the overlap loop
FixFrom(cs, i) == IF i > Len(cs) - 1 THEN cs ELSE FixFrom(FixPair(cs, i), i + 1)

\* create_subtitle_file as one call: what it returns, the cues and the file;
\* an exception is caught at line 267 before the file is opened
create_subtitle_file(data) ==
    IF data = <<>> THEN [ret |-> "False", cues |-> <<>>, file |-> <<>>]
    ELSE IF \E k \in 1..Len(data) : Raises(data[k])
    THEN [ret |-> "False", cues |-> <<>>, file |-> <<>>]
    ELSE LET cs == FixFrom(SortByStart(CollectCues(data)), 1)
         IN  [ret |-> "True", cues |-> cs, file |-> SrtLines(cs)]

SubIdle ==
    /\ subtitle_data = <<>>
    /\ subtitle_chunks = <<>>
    /\ sorted_chunks = <<>>
    /\ seg_i = 0
    /\ fix_i = 0
    /\ srt_file = <<>>
    /\ sub_ret = "none"
    /\ sub_pc = "idle"

\* lines 176-181
SubCall ==
    /\ sub_pc = "call"
    /\ IF subtitle_data = <<>>
       THEN /\ sub_ret' = "False"
            /\ sub_pc' = "done"
            /\ UNCHANGED seg_i
       ELSE /\ seg_i' = 1
            /\ sub_pc' = "collect"
            /\ UNCHANGED sub_ret
    /\ UNCHANGED <<subtitle_data, subtitle_chunks, sorted_chunks, fix_i, srt_file, notSub>>

\* lines 183-240, one segment; lines 267-269 when it raises
CollectSegment ==
    /\ sub_pc = "collect"
    /\ seg_i <= Len(subtitle_data)
    /\ IF Raises(subtitle_data[seg_i])
       THEN /\ sub_ret' = "False"
            /\ sub_pc' = "done"
            /\ UNCHANGED <<subtitle_chunks, seg_i>>
       ELSE /\ subtitle_chunks' = subtitle_chunks \o SegmentCues(subtitle_data[seg_i])
            /\ seg_i' = seg_i + 1
            /\ UNCHANGED <<sub_ret, sub_pc>>
    /\ UNCHANGED <<subtitle_data, sorted_chunks, fix_i, srt_file, notSub>>

\* line 243
SortChunks ==
    /\ sub_pc = "collect"
    /\ seg_i > Len(subtitle_data)
    /\ subtitle_chunks' = SortByStart(subtitle_chunks)
    /\ sorted_chunks' = SortByStart(subtitle_chunks)
    /\ fix_i' = 1
    /\ sub_pc' = "fix"
    /\ UNCHANGED <<subtitle_data, seg_i, srt_file, sub_ret, notSub>>

\* lines 246-254, one iteration
FixOverlap ==
    /\ sub_pc = "fix"
    /\ fix_i <= Len(subtitle_chunks) - 1
    /\ subtitle_chunks' = FixPair(subtitle_chunks, fix_i)
    /\ fix_i' = fix_i + 1
    /\ UNCHANGED <<subtitle_data, sorted_chunks, seg_i, srt_file, sub_ret, sub_pc, notSub>>

\* lines 257-265
WriteFile ==
    /\ sub_pc = "fix"
    /\ fix_i > Len(subtitle_chunks) - 1
    /\ srt_file' = SrtLines(subtitle_chunks)
    /\ sub_ret' = "True"
    /\ sub_pc' = "done"
    /\ UNCHANGED <<subtitle_data, subtitle_chunks, sorted_chunks, seg_i, fix_i, notSub>>

-----------------------------------------------------------------------------
(* _clean_title_text *)

\* characters of the ranges of emoji_pattern: U+1F600 (emoticons) and
\* U+2764 (in \u2600-\u2B55), each one character of the text
EmojiChars == {"U+1F600", "U+2764"}

Letters ==
    {"a", "b", "c", "d", "e", "f", "g", "h", "i", "j", "k", "l", "m", "n", "o", "p",
     "q", "r", "s", "t", "u", "v", "w", "x", "y", "z",
     "A", "B", "C", "D", "E", "F", "G", "H", "I", "J", "K", "L", "M", "N", "O", "P",
     "Q", "R", "S", "T", "U", "V", "W", "X", "Y", "Z"}

Digits == {"0", "1", "2", "3", "4", "5", "6", "7", "8", "9"}

\* \w of Python's re on str
IsWordChar(c) == c \in Letters \cup Digits \cup {"_"}

\* the characters the class [^\w\s\-.,!?()'"] of line 472 does not match
IsKept(c) == IsWordChar(c) \/ IsSpace(c) \/ c \in {"-", ".", ",", "!", "?", "(", ")", "'", "\""}

\* re.sub(pattern, '', s) for a pattern that matches the characters not in Keep
Remove(s, Keep(_)) == SelectSeq(s, Keep)

NotEmoji(c) == c \notin EmojiChars

clean_title_text_CollapseFirst(text) == Remove(Strip(Join(Split(text))), IsKept)

\* lines 468-477; the class of line 472 removes what emoji_pattern removes
clean_title_text(text) == Strip(Join(Split(Remove(Remove(text, NotEmoji), IsKept))))

-----------------------------------------------------------------------------
(* _split_title_text *)

MinLineChars == 12
MaxLineChars == 50
MaxTitleLines == 3

max_chars_per_line_Unclamped(font_size, video_width, use_meme_style) ==
    IF use_meme_style
    THEN (9 * (video_width \div font_size)) \div 10
    ELSE (4 * video_width) \div (3 * font_size)

\* lines 502-519.  int(usable_width / char_width) is the floor of the exact
\* quotient, 4 w / (3 f) for normal and w / f for meme style, whenever that
\* quotient is no whole number (the float error is far below 1 / (3 f));
\* the widths and font sizes drawn below keep to that case for meme style,
\* and for normal style the floats give the floor for every f = 60, w <= 4000
max_chars_per_line(font_size, video_width, use_meme_style) ==
    LET raw == IF use_meme_style
               THEN (9 * (video_width \div font_size)) \div 10
               ELSE (4 * video_width) \div (3 * font_size)
    IN  Max(MinLineChars, Min(MaxLineChars, raw))

\* text[:n] of Python, n >= 0
Prefix(text, n) == SubSeq(text, 1, Min(n, Len(text)))

Ellipsis == <<".", ".", ".">>

RECURSIVE PackWords(_, _, _, _, _)
\* lines 528-542: the loop over the words from the k-th on
PackWords(words, k, lines, current_line, maxc) ==
    IF k > Len(words) THEN [lines |-> lines, current_line |-> current_line]
    ELSE LET word == words[k]
             test_line == current_line \o (IF current_line /= <<>> THEN <<" ">> ELSE <<>>) \o word
         IN  IF Len(test_line) <= maxc
             THEN PackWords(words, k + 1, lines, test_line, maxc)
             ELSE PackWords(words, k + 1,
                            IF current_line /= <<>> THEN Append(lines, current_line) ELSE lines,
                            IF Len(word) > maxc THEN Prefix(word, maxc - 3) \o Ellipsis ELSE word,
                            maxc)

\* lines 495-553, with font_size given; config_width is VIDEO_WIDTH of the config
split_title_text(text, font_size, video_width, use_meme_style, config_width) ==
    LET width == IF video_width = 1080 THEN config_width ELSE video_width
        maxc  == max_chars_per_line(font_size, width, use_meme_style)
    IN  IF Len(text) <= maxc THEN <<text>>
        ELSE LET p == PackWords(Split(text), 1, <<>>, <<>>, maxc)
                 lines == IF p.current_line /= <<>> THEN Append(p.lines, p.current_line)
                          ELSE p.lines
             IN  IF Len(lines) > MaxTitleLines
                 THEN <<lines[1], lines[2], Prefix(lines[2], maxc - 3) \o Ellipsis>>
                 ELSE lines

-----------------------------------------------------------------------------
(* drawtext text escaping *)

RECURSIVE ReplaceChar(_, _, _)
\* s.replace(c, r) for a one-character c
ReplaceChar(s, c, r) ==
    IF s = <<>> THEN <<>>
    ELSE (IF Head(s) = c THEN r ELSE <<Head(s)>>) \o ReplaceChar(Tail(s), c, r)

escape_text_QuoteFirst(text) ==
    ReplaceChar(
        ReplaceChar(
            ReplaceChar(
                ReplaceChar(text, "'", <<"'", "\\", "'", "'">>),
                "\\", <<"\\", "\\">>),
            ":", <<"\\", ":">>),
        "%", <<"\\", "%">>)

\* lines 63, 117, 735, 768
escape_text(text) ==
    ReplaceChar(
        ReplaceChar(
            ReplaceChar(
                ReplaceChar(text, "\\", <<"\\", "\\">>),
                "'", <<"'", "\\", "'", "'">>),
            ":", <<"\\", ":">>),
        "%", <<"\\", "%">>)

-----------------------------------------------------------------------------
(* process_clip: the filter list *)

\* one entry of filters: "[ins...]op=...[out]"; arg tells the variants of an
\* op apart, width is the video_width written into it (0 if none), text the
\* escaped text of a drawtext, y its vertical position
Stage(op, ins, out, arg, width, text, y) ==
    [op |-> op, ins |-> ins, out |-> out, arg |-> arg, width |-> width, text |-> text, y |-> y]

NoY == <<"", 0>>

\* defaults read at lines 600, 717, 107, 766
VIDEO_WIDTH     == 1080
NormalFontSize  == 60
WATERMARK_TEXT  == <<"Y", "o", "u", "r", "C", "h", "a", "n", "n", "e", "l">>
ChannelPrefix   == <<"t", "w", "i", "t", "c", "h", ".", "t", "v", "/">>

MainVideoStages_CropAlways(a) ==
    IF a.crop_percentage > 0
    THEN << Stage("crop", <<"0:v">>, "main_cropped",
                  IF a.crop_from_sides THEN "sides" ELSE "top_bottom", 0, <<>>, NoY),
            Stage("scale", <<"main_cropped">>, "main_scaled", "main", VIDEO_WIDTH, <<>>, NoY) >>
    ELSE << Stage("scale", <<"0:v">>, "main_scaled", "main", VIDEO_WIDTH, <<>>, NoY) >>

\* lines 620-639 (the same in the three branches): crop and scale of the main video
MainVideoStages(a) ==
    IF a.enable_crop /\ a.crop_percentage > 0
    THEN << Stage("crop", <<"0:v">>, "main_cropped",
                  IF a.crop_from_sides THEN "sides" ELSE "top_bottom", 0, <<>>, NoY),
            Stage("scale", <<"main_cropped">>, "main_scaled", "main", VIDEO_WIDTH, <<>>, NoY) >>
    ELSE << Stage("scale", <<"0:v">>, "main_scaled", "main", VIDEO_WIDTH, <<>>, NoY) >>

LayoutStages_MainFirst(a) ==
    IF a.background_type = "blurred"
    THEN MainVideoStages(a)
         \o << Stage("scale", <<"0:v">>, "bg_scaled", "increase", VIDEO_WIDTH, <<>>, NoY),
               Stage("crop", <<"bg_scaled">>, "bg_cropped", "frame", VIDEO_WIDTH, <<>>, NoY),
               Stage("gblur", <<"bg_cropped">>, "temp_blur", "sigma_1", 0, <<>>, NoY),
               Stage("gblur", <<"temp_blur">>, "temp_blurred", "sigma_2", 0, <<>>, NoY),
               Stage("eq", <<"temp_blurred">>, "bg_blurred", "brightness", 0, <<>>, NoY),
               Stage("overlay", <<"bg_blurred", "main_scaled">>, "composed", "", 0, <<>>, NoY) >>
    ELSE IF a.background_type = "gradient"
    THEN MainVideoStages(a)
         \o << Stage("color", <<>>, "gradient_bg", "gradient", VIDEO_WIDTH, <<>>, NoY),
               Stage("overlay", <<"gradient_bg", "main_scaled">>, "composed", "", 0, <<>>, NoY) >>
    ELSE MainVideoStages(a)
         \o << Stage("pad", <<"main_scaled">>, "composed", "solid", VIDEO_WIDTH, <<>>, NoY) >>

\* lines 609-685
LayoutStages(a) ==
    IF a.background_type = "blurred"
    THEN << Stage("scale", <<"0:v">>, "bg_scaled", "increase", VIDEO_WIDTH, <<>>, NoY),
            Stage("crop", <<"bg_scaled">>, "bg_cropped", "frame", VIDEO_WIDTH, <<>>, NoY),
            Stage("gblur", <<"bg_cropped">>, "temp_blur", "sigma_1", 0, <<>>, NoY),
            Stage("gblur", <<"temp_blur">>, "temp_blurred", "sigma_2", 0, <<>>, NoY),
            Stage("eq", <<"temp_blurred">>, "bg_blurred", "brightness", 0, <<>>, NoY) >>
         \o MainVideoStages(a)
         \o << Stage("overlay", <<"bg_blurred", "main_scaled">>, "composed", "", 0, <<>>, NoY) >>
    ELSE IF a.background_type = "gradient"
    THEN << Stage("color", <<>>, "gradient_bg", "gradient", VIDEO_WIDTH, <<>>, NoY) >>
         \o MainVideoStages(a)
         \o << Stage("overlay", <<"gradient_bg", "main_scaled">>, "composed", "", 0, <<>>, NoY) >>
    ELSE MainVideoStages(a)
         \o << Stage("pad", <<"main_scaled">>, "composed", "solid", VIDEO_WIDTH, <<>>, NoY) >>

\* lines 699-704: width and height of the first video stream, 0 for None
ProbedSize(info) ==
    LET vs == SelectSeq(info.streams, LAMBDA st : st.codec_type = "video")
    IN  IF vs = <<>> THEN [width |-> 0, height |-> 0]
        ELSE [width |-> vs[1].width, height |-> vs[1].height]

\* lines 695-710: the dimensions used from here on
SourceSize(info) ==
    LET p == ProbedSize(info)
    IN  IF p.width = 0 \/ p.height = 0 THEN [width |-> 1080, height |-> 1920] ELSE p

\* lines 713-717; int(h * 0.09) is the floor of 9 h / 100 for every h <= 4000
TitleFontSize(use_meme_style, video_height) ==
    IF use_meme_style THEN (9 * video_height) \div 100 ELSE NormalFontSize

\* lines 66-72 and 746-756: y of line i (from 0) of n lines
TitleY(i, n) ==
    IF n = 1 THEN 200
    ELSE IF n = 2 THEN 170 + i * 70
    ELSE 140 + i * 60

NextFilter_Indexed(i, n) == "titled_" \o ToString(i)

\* line 727
NextFilter(i, n) == IF i < n - 1 THEN "titled_" \o ToString(i) ELSE "titled"

\* line 725 and line 763: the pad the i-th title stage (from 0) reads
CurrentFilter(i) == IF i = 0 THEN "composed" ELSE "titled_" \o ToString(i - 1)

\* lines 725-763
TitleStages(lines, use_meme_style) ==
    [k \in 1..Len(lines) |->
        Stage("drawtext", <<CurrentFilter(k - 1)>>, NextFilter(k - 1, Len(lines)),
              IF use_meme_style THEN "meme" ELSE "normal", 0,
              escape_text(lines[k]), <<"", TitleY(k - 1, Len(lines))>>)]

\* lines 766-779
ChannelStage(clip) ==
    Stage("drawtext", <<"titled">>, "channel_added", "channel", 0,
          escape_text(ChannelPrefix \o clip.broadcaster_name), <<"h-", 150>>)

\* lines 98-130 and 784
WatermarkStage(cfg) ==
    Stage("drawtext", <<"channel_added">>, "watermarked", "watermark", 0,
          escape_text(cfg.WATERMARK_TEXT), <<"h-text_h-", 20>>)

\* line 798
SubtitlesStage(input) == Stage("subtitles", <<input>>, "final", "srt", 0, <<>>, NoY)

ClipIdle ==
    /\ args = <<>>
    /\ config = <<>>
    /\ world = <<>>
    /\ video_info = <<>>
    /\ filters = <<>>
    /\ title_lines = <<>>
    /\ current_output = ""
    /\ final_output = ""
    /\ temp_subtitle = "absent"
    /\ cmd = <<>>
    /\ clip_ret = "none"
    /\ clip_pc = "idle"
    /\ input_exists = FALSE
    /\ returncode = "none"

\* lines 576-586
ClipEntry ==
    /\ clip_pc = "entry"
    /\ IF world.output_exists
       THEN /\ clip_ret' = "output_path"
            /\ clip_pc' = "done"
            /\ UNCHANGED video_info
       ELSE /\ video_info' = world.probe
            /\ IF world.probe.empty
               THEN clip_ret' = "None" /\ clip_pc' = "done"
               ELSE clip_pc' = "layout" /\ UNCHANGED clip_ret
    /\ UNCHANGED <<args, config, world, filters, title_lines, current_output,
                   final_output, temp_subtitle, cmd, input_exists, returncode,
                   notClip>>

\* lines 596-685
BuildLayout ==
    /\ clip_pc = "layout"
    /\ filters' = LayoutStages(args)
    /\ clip_pc' = "title"
    /\ UNCHANGED <<args, config, world, video_info, title_lines, current_output,
                   final_output, temp_subtitle, cmd, clip_ret, input_exists, returncode,
                   notClip>>

\* lines 687-763
BuildTitle ==
    /\ clip_pc = "title"
    /\ LET title_text     == clean_title_text(args.clip.title)
           use_meme_style == config.STYLE = "meme"
           size           == SourceSize(video_info)
           font_size      == TitleFontSize(use_meme_style, size.height)
           lines          == split_title_text(title_text, font_size, size.width,
                                              use_meme_style, VIDEO_WIDTH)
       IN  /\ title_lines' = lines
           /\ filters' = filters \o TitleStages(lines, use_meme_style)
    /\ clip_pc' = "channel"
    /\ UNCHANGED <<args, config, world, video_info, current_output,
                   final_output, temp_subtitle, cmd, clip_ret, input_exists, returncode,
                   notClip>>

\* lines 765-779
BuildChannel ==
    /\ clip_pc = "channel"
    /\ filters' = Append(filters, ChannelStage(args.clip))
    /\ clip_pc' = "watermark"
    /\ UNCHANGED <<args, config, world, video_info, title_lines, current_output,
                   final_output, temp_subtitle, cmd, clip_ret, input_exists, returncode,
                   notClip>>

\* lines 781-787
BuildWatermark ==
    /\ clip_pc = "watermark"
    /\ IF config.ENABLE_WATERMARK
       THEN /\ filters' = Append(filters, WatermarkStage(config))
            /\ current_output' = "watermarked"
       ELSE /\ current_output' = "channel_added"
            /\ UNCHANGED filters
    /\ clip_pc' = "subtitles"
    /\ UNCHANGED <<args, config, world, video_info, title_lines,
                   final_output, temp_subtitle, cmd, clip_ret, input_exists, returncode,
                   notClip>>

\* lines 789-803
BuildSubtitles ==
    /\ clip_pc = "subtitles"
    /\ IF args.enable_subtitles /\ args.burn_subtitles /\ args.subtitle_data /= <<>>
       THEN LET r == create_subtitle_file(args.subtitle_data)
            IN  IF r.ret = "True"
                THEN /\ temp_subtitle' = r.file
                     /\ filters' = Append(filters, SubtitlesStage(current_output))
                     /\ final_output' = "final"
                ELSE /\ final_output' = current_output
                     /\ UNCHANGED <<filters, temp_subtitle>>
       ELSE /\ final_output' = current_output
            /\ UNCHANGED <<filters, temp_subtitle>>
    /\ clip_pc' = "command"
    /\ UNCHANGED <<args, config, world, video_info, title_lines, current_output,
                   cmd, clip_ret, input_exists, returncode,
                   notClip>>

\* lines 805-849
BuildCommand ==
    /\ clip_pc = "command"
    /\ cmd' = [filter_complex |-> filters, maps |-> <<final_output, "0:a">>]
    /\ clip_pc' = "encode"
    /\ UNCHANGED <<args, config, world, video_info, filters, title_lines, current_output,
                   final_output, temp_subtitle, clip_ret, input_exists, returncode,
                   notClip>>

RunEncoder_AlwaysRemove ==
    /\ clip_pc = "encode"
    /\ \E outcome \in {"zero", "nonzero", "timeout"}, removed \in BOOLEAN :
          /\ returncode' = outcome
          /\ clip_ret' = IF outcome = "zero" THEN "output_path" ELSE "None"
          /\ temp_subtitle' =
                IF outcome = "zero" /\ args.enable_subtitles /\ args.burn_subtitles
                                    /\ args.subtitle_data /= <<>>
                THEN "absent" ELSE temp_subtitle
          /\ input_exists' = IF removed THEN FALSE ELSE input_exists
    /\ clip_pc' = "done"
    /\ UNCHANGED <<args, config, world, video_info, filters, title_lines, current_output,
                   final_output, cmd, notClip>>

\* lines 851-878: the encoder exits with 0, exits with an error, or times out;
\* after an exit with 0 os.remove(input_path) is tried, and a failure of the
\* removal is only reported (lines 863-868)
RunEncoder ==
    /\ clip_pc = "encode"
    /\ \E outcome \in {"zero", "nonzero", "timeout"}, removed \in BOOLEAN :
          /\ returncode' = outcome
          /\ input_exists' = IF outcome = "zero" /\ removed THEN FALSE ELSE input_exists
          /\ clip_ret' = IF outcome = "zero" THEN "output_path" ELSE "None"
          /\ temp_subtitle' =
                IF outcome = "zero" /\ args.enable_subtitles /\ args.burn_subtitles
                                    /\ args.subtitle_data /= <<>>
                THEN "absent" ELSE temp_subtitle
    /\ clip_pc' = "done"
    /\ UNCHANGED <<args, config, world, video_info, filters, title_lines, current_output,
                   final_output, cmd, notClip>>

-----------------------------------------------------------------------------
(* process_clip: two calls in one process *)

\* the two calls
Calls == {1, 2}

\* the subtitle file before any call has written it
NoFile == [exists |-> FALSE, lines |-> <<>>]

\* the encoder has not opened the subtitle path
NotRead == [opened |-> FALSE, found |-> FALSE, lines |-> <<>>]

ParIdle ==
    /\ par_data = <<>>
    /\ par_pc = <<>>
    /\ par_filter = <<>>
    /\ par_read = <<>>
    /\ par_ret = <<>>
    /\ par_srt = NoFile

\* lines 789-803 of call p, captions enabled and subtitle_data not empty: the
\* path is temp_subtitles_<os.getpid()>.srt, the same for every call of the
\* process
ParSubtitles(p) ==
    /\ par_pc[p] = "subtitles"
    /\ LET r == create_subtitle_file(par_data[p])
       IN  IF r.ret = "True"
           THEN /\ par_srt' = [exists |-> TRUE, lines |-> r.file]
                /\ par_filter' = [par_filter EXCEPT ![p] = TRUE]
           ELSE UNCHANGED <<par_srt, par_filter>>
    /\ par_pc' = [par_pc EXCEPT ![p] = "encode"]
    /\ UNCHANGED <<par_data, par_read, par_ret, notPar>>

\* lines 805-852 of call p: the encoder starts and its subtitles filter opens
\* the path written into the filter list
ParEncoderStart(p) ==
    /\ par_pc[p] = "encode"
    /\ par_read' = [par_read EXCEPT ![p] =
                        IF par_filter[p]
                        THEN [opened |-> TRUE, found |-> par_srt.exists, lines |-> par_srt.lines]
                        ELSE NotRead]
    /\ par_pc' = [par_pc EXCEPT ![p] = "running"]
    /\ UNCHANGED <<par_data, par_filter, par_ret, par_srt, notPar>>

\* lines 852-878 of call p: the encoder ends; after an exit with 0 the
\* subtitle file is removed if it is there (lines 855-861); an encoder that
\* did not find its subtitle file does not exit with 0
ParEncoderExit(p) ==
    /\ par_pc[p] = "running"
    /\ \E outcome \in {"zero", "nonzero", "timeout"} :
          /\ (par_read[p].opened /\ ~par_read[p].found) => outcome /= "zero"
          /\ par_ret' = [par_ret EXCEPT ![p] =
                            IF outcome = "zero" THEN "output_path" ELSE "None"]
          /\ par_srt' = IF outcome = "zero" THEN NoFile ELSE par_srt
    /\ par_pc' = [par_pc EXCEPT ![p] = "done"]
    /\ UNCHANGED <<par_data, par_filter, par_read, notPar>>

-----------------------------------------------------------------------------
(* TTVClips.process_clips: the external calls of phases 2 and 3 *)

\* how an external program or the transcriber behaves in one call
CallOutcomes == {"ok", "fails", "never"}

\* the calls that are given a timeout: subprocess.run(..., timeout=...) in
\* get_video_info, extract_audio_ffmpeg and process_clip; none in
\* SubtitleGenerator.extract_audio (subprocess.run(cmd, ..., check=True)) and
\* none around model.transcribe
HasTimeout ==
    [get_video_info       |-> TRUE,
     extract_audio_ffmpeg |-> TRUE,
     encoder              |-> TRUE,
     extract_audio        |-> FALSE,
     transcribe_audio     |-> FALSE]

\* what the caller sees: a call that never returns is ended by its timeout
\* (TimeoutExpired, a failure) when it has one, and blocks the caller otherwise
CallResult(call, outcome) ==
    IF outcome = "never"
    THEN IF HasTimeout[call] THEN "fails" ELSE "blocked"
    ELSE outcome

PipeIdle ==
    /\ pipe_n = 0
    /\ pipe_subs = FALSE
    /\ pipe_i = 0
    /\ pipe_subtitle = <<>>
    /\ pipe_rendered = <<>>
    /\ pipe_pc = "idle"

\* src/ttvclips.py lines 195-199 and 236: phase 2 is entered when subtitles
\* are enabled and a clip was downloaded
StartSubtitles ==
    /\ pipe_pc = "phase2"
    /\ IF pipe_subs /\ pipe_n > 0
       THEN pipe_pc' = "extract" /\ pipe_i' = 1
       ELSE pipe_pc' = "phase3" /\ pipe_i' = 0
    /\ UNCHANGED <<pipe_n, pipe_subs, pipe_subtitle, pipe_rendered, notPipe>>

\* the loop of _generate_subtitles_batch goes to the next clip, or ends
NextSubtitle ==
    IF pipe_i < pipe_n
    THEN pipe_pc' = "extract" /\ pipe_i' = pipe_i + 1
    ELSE pipe_pc' = "phase3" /\ pipe_i' = 0

\* src/ttvclips.py line 251 with extract_audio_ffmpeg (lines 880-908), which
\* returns False on a non-zero exit and on any exception
ExtractAudioFfmpeg ==
    /\ pipe_pc = "extract"
    /\ \E outcome \in CallOutcomes :
          pipe_pc' = IF CallResult("extract_audio_ffmpeg", outcome) = "ok"
                     THEN "transcribe" ELSE "fallback"
    /\ UNCHANGED <<pipe_n, pipe_subs, pipe_i, pipe_subtitle, pipe_rendered, notPipe>>

\* src/ttvclips.py lines 255-256 with SubtitleGenerator.extract_audio (lines
\* 64-107), which raises when ffmpeg fails; the except of line 266 sets
\* subtitle_data to None
ExtractAudioFallback ==
    /\ pipe_pc = "fallback"
    /\ \E outcome \in CallOutcomes :
          LET r == CallResult("extract_audio", outcome)
          IN  CASE r = "ok"      -> /\ pipe_pc' = "transcribe"
                                    /\ UNCHANGED <<pipe_i, pipe_subtitle>>
                [] r = "fails"   -> /\ pipe_subtitle' = [pipe_subtitle EXCEPT ![pipe_i] = "None"]
                                    /\ NextSubtitle
                [] r = "blocked" -> /\ pipe_pc' = "blocked"
                                    /\ UNCHANGED <<pipe_i, pipe_subtitle>>
    /\ UNCHANGED <<pipe_n, pipe_subs, pipe_rendered, notPipe>>

\* src/ttvclips.py lines 252-253, 257-258 with transcribe_audio (lines
\* 110-160), which raises what model.transcribe raises
TranscribeAudio ==
    /\ pipe_pc = "transcribe"
    /\ \E outcome \in CallOutcomes :
          LET r == CallResult("transcribe_audio", outcome)
          IN  CASE r = "ok"      -> /\ pipe_subtitle' = [pipe_subtitle EXCEPT ![pipe_i] = "data"]
                                    /\ NextSubtitle
                [] r = "fails"   -> /\ pipe_subtitle' = [pipe_subtitle EXCEPT ![pipe_i] = "None"]
                                    /\ NextSubtitle
                [] r = "blocked" -> /\ pipe_pc' = "blocked"
                                    /\ UNCHANGED <<pipe_i, pipe_subtitle>>
    /\ UNCHANGED <<pipe_n, pipe_subs, pipe_rendered, notPipe>>

\* src/ttvclips.py lines 201-205: phase 3 renders the downloaded clips in turn
StartRender ==
    /\ pipe_pc = "phase3"
    /\ IF pipe_n > 0
       THEN pipe_pc' = "probe" /\ pipe_i' = 1
       ELSE pipe_pc' = "done" /\ pipe_i' = 0
    /\ UNCHANGED <<pipe_n, pipe_subs, pipe_subtitle, pipe_rendered, notPipe>>

\* the render loop goes to the next clip, or process_clips returns
NextRender ==
    IF pipe_i < pipe_n
    THEN pipe_pc' = "probe" /\ pipe_i' = pipe_i + 1
    ELSE pipe_pc' = "done" /\ pipe_i' = pipe_i

\* process_clip lines 576-586 through _render_clip: phase 1 has kept only
\* clips whose rendered output is not there (lines 164-171), so
\* get_video_info (lines 156-171) is called, which returns {} on a failure
\* and on any exception
RenderProbe ==
    /\ pipe_pc = "probe"
    /\ \E outcome \in CallOutcomes :
          IF CallResult("get_video_info", outcome) = "ok"
          THEN /\ pipe_pc' = "encode"
               /\ UNCHANGED <<pipe_i, pipe_rendered>>
          ELSE /\ pipe_rendered' = [pipe_rendered EXCEPT ![pipe_i] = "None"]
               /\ NextRender
    /\ UNCHANGED <<pipe_n, pipe_subs, pipe_subtitle, notPipe>>

\* process_clip lines 588-878 through _render_clip: the filter list is built
\* and the encoder is run
RenderEncode ==
    /\ pipe_pc = "encode"
    /\ \E outcome \in CallOutcomes :
          /\ pipe_rendered' = [pipe_rendered EXCEPT ![pipe_i] =
                                  IF CallResult("encoder", outcome) = "ok"
                                  THEN "path" ELSE "None"]
          /\ NextRender
    /\ UNCHANGED <<pipe_n, pipe_subs, pipe_subtitle, notPipe>>

-----------------------------------------------------------------------------
(* the title functions called on their own *)

TitleIdle ==
    /\ fn_text = <<>>
    /\ fn_font_size = 0
    /\ fn_video_width = 0
    /\ fn_meme_style = FALSE
    /\ fn_result = <<>>
    /\ fn_again = <<>>
    /\ fn_pc = "idle"

\* s = _clean_title_text(text)
CleanTitle ==
    /\ fn_pc = "clean"
    /\ fn_result' = clean_title_text(fn_text)
    /\ fn_pc' = "cleaned"
    /\ UNCHANGED <<fn_text, fn_font_size, fn_video_width, fn_meme_style, fn_again, notTitle>>

\* _clean_title_text(s)
CleanTitleAgain ==
    /\ fn_pc = "cleaned"
    /\ fn_again' = clean_title_text(fn_result)
    /\ fn_pc' = "recleaned"
    /\ UNCHANGED <<fn_text, fn_font_size, fn_video_width, fn_meme_style, fn_result, notTitle>>

\* _split_title_text(text, font_size, video_width), config without VIDEO_WIDTH
SplitTitle ==
    /\ fn_pc = "split"
    /\ fn_result' = split_title_text(fn_text, fn_font_size, fn_video_width, fn_meme_style,
                                     VIDEO_WIDTH)
    /\ fn_pc' = "split_done"
    /\ UNCHANGED <<fn_text, fn_font_size, fn_video_width, fn_meme_style, fn_again, notTitle>>

-----------------------------------------------------------------------------
(* SpecChunks: the two chunkers applied to bounded word lists *)

MaxWords     == 5       \* longest word-timed list
MaxTextWords == 6       \* longest plain-text word list

\* words of 1, 9 and 21 characters
ChunkVocab == {<<"a">>, Rep("b", 9), Rep("c", 21)}

\* a word spoken right after its predecessor for 0.3 s, or after a 0.3 s
\* pause for 0.9 s
ChunkTimings == {[gap |-> 0, dur |-> 180], [gap |-> 180, dur |-> 540]}

RECURSIVE TimedWords(_, _, _)
\* the Whisper word entries for the choices o, the first one spoken from t on
TimedWords(o, k, t) ==
    IF k > Len(o) THEN <<>>
    ELSE LET st == t + o[k][2].gap
             en == st + o[k][2].dur
         IN  <<[word |-> o[k][1], start |-> st, end |-> en]>> \o TimedWords(o, k + 1, en)

TimedLists(vocab, timings, n) ==
    {TimedWords(o, 1, 0) : o \in UNION {[1..m -> vocab \X timings] : m \in 0..n}}

TextLists(vocab, n) == UNION {[1..m -> vocab] : m \in 0..n}

ChunkInit ==
    /\ \/ /\ words_data \in TimedLists(ChunkVocab, ChunkTimings, MaxWords)
          /\ text_words = <<>>
          /\ chunk_pc = "timed"
       \/ /\ text_words \in TextLists(ChunkVocab, MaxTextWords)
          /\ words_data = <<>>
          /\ chunk_pc = "text"
    /\ chunks = <<>>
    /\ text_chunks = <<>>
    /\ SubIdle
    /\ ClipIdle
    /\ TitleIdle
    /\ ParIdle
    /\ PipeIdle

SmartChunks ==
    /\ chunk_pc = "timed"
    /\ chunks' = create_smart_chunks(words_data)
    /\ chunk_pc' = "done"
    /\ UNCHANGED <<words_data, text_words, text_chunks, notChunk>>

SmartTextChunks ==
    /\ chunk_pc = "text"
    /\ text_chunks' = create_smart_text_chunks(text_words)
    /\ chunk_pc' = "done"
    /\ UNCHANGED <<words_data, text_words, chunks, notChunk>>

ChunkNext == SmartChunks \/ SmartTextChunks

SpecChunks == ChunkInit /\ [][ChunkNext]_vars

-----------------------------------------------------------------------------
(* Spec: create_subtitle_file applied to bounded transcripts *)

MaxSegs == 2            \* longest transcript

\* word entries: a one-letter word, a 21-letter word, a whitespace-only word
SubVocab == {<<"a">>, Rep("c", 21), <<" ">>}

\* every word is spoken for 0.2 s right after its predecessor
SubTimings == {[gap |-> 0, dur |-> 120]}

\* a segment with word timing: its text is the words joined, its span theirs
WordSegment(ws) ==
    [text  |-> Join([k \in 1..Len(ws) |-> ws[k].word]),
     start |-> ws[1].start,
     end   |-> Last(ws).end,
     words |-> ws]

WordSegments == {WordSegment(ws) : ws \in TimedLists(SubVocab, SubTimings, 2) \ {<<>>}}

\* segments without word timing: blank, one word, and four words that
\* _create_smart_text_chunks splits in two; over 0-1.2 s, 1.0-2.0 s, 2.3-2.5 s
FallbackTexts == {<<" ">>, <<"a">>, Join(<<Rep("c", 21), <<"a">>, <<"a">>, <<"a">> >>)}

FallbackSpans == {<<0, 720>>, <<600, 1200>>, <<1380, 1500>>}

FallbackSegments ==
    {[text |-> t, start |-> sp[1], end |-> sp[2], words |-> <<>>] :
        t \in FallbackTexts, sp \in FallbackSpans}

\* 'a z' whose second word ends 0.5 s before it starts
BackwardWordSegment ==
    [text  |-> <<"a", " ", "z">>,
     start |-> 0,
     end   |-> 600,
     words |-> << [word |-> <<"a">>, start |-> 0, end |-> 120],
                  [word |-> <<"z">>, start |-> 600, end |-> 300] >>]

\* 'z' from 1.0 s on, without the key 'end'
NoEndSegment == [text |-> <<"z">>, start |-> 600, words |-> <<>>]

SegmentPool == WordSegments \cup FallbackSegments \cup {BackwardWordSegment, NoEndSegment}

Transcripts == UNION {[1..n -> SegmentPool] : n \in 0..MaxSegs}

ChunkIdle ==
    /\ words_data = <<>>
    /\ text_words = <<>>
    /\ chunks = <<>>
    /\ text_chunks = <<>>
    /\ chunk_pc = "idle"

Init ==
    /\ subtitle_data \in Transcripts
    /\ subtitle_chunks = <<>>
    /\ sorted_chunks = <<>>
    /\ seg_i = 0
    /\ fix_i = 0
    /\ srt_file = <<>>
    /\ sub_ret = "none"
    /\ sub_pc = "call"
    /\ ChunkIdle
    /\ ClipIdle
    /\ TitleIdle
    /\ ParIdle
    /\ PipeIdle

Next == SubCall \/ CollectSegment \/ SortChunks \/ FixOverlap \/ WriteFile

Spec == Init /\ [][Next]_vars

-----------------------------------------------------------------------------
(* SpecClip: process_clip on bounded arguments *)

\* n five-letter words
TitleWords(n) == Join([k \in 1..n |-> IF k % 2 = 1 THEN Rep("a", 5) ELSE Rep("b", 5)])

GGWP == <<"G", "G", " ", "W", "P">>

\* 'GG WP', an emoji alone, and titles of 29, 47 and 83 characters
Titles ==
    { GGWP, <<"U+1F600">>, TitleWords(5), TitleWords(8), TitleWords(14) }

\* "it's 5%: a" by the channel a:%\'
QuotedClip ==
    [title |-> <<"i", "t", "'", "s", " ", "5", "%", ":", " ", "a">>,
     broadcaster_name |-> <<"a", ":", "%", "\\", "'">>]

Clips == {[title |-> t, broadcaster_name |-> <<"x", "q", "c">>] : t \in Titles} \cup {QuotedClip}

CropChoices ==
    { [enable_crop |-> FALSE, crop_percentage |-> 10, crop_from_sides |-> TRUE],
      [enable_crop |-> TRUE,  crop_percentage |-> 0,  crop_from_sides |-> TRUE],
      [enable_crop |-> TRUE,  crop_percentage |-> 10, crop_from_sides |-> TRUE],
      [enable_crop |-> TRUE,  crop_percentage |-> 10, crop_from_sides |-> FALSE] }

\* no transcript, a transcript of one silent segment, a transcript of one word
ClipTranscripts ==
    { <<>>,
      <<[text |-> <<>>, start |-> 0, end |-> 720, words |-> <<>>]>>,
      <<[text |-> <<"a">>, start |-> 0, end |-> 720, words |-> <<>>]>> }

ClipArgs ==
    { [clip |-> c, subtitle_data |-> d, enable_subtitles |-> es, burn_subtitles |-> bs,
       background_type |-> bg, enable_crop |-> cr.enable_crop,
       crop_percentage |-> cr.crop_percentage, crop_from_sides |-> cr.crop_from_sides] :
        c \in Clips, d \in ClipTranscripts, es \in BOOLEAN, bs \in BOOLEAN,
        bg \in {"blurred", "gradient", "solid"}, cr \in CropChoices }

\* a watermark section with WATERMARK_TEXT = '50%: it\'s \\o/'
QuotedConfig ==
    [STYLE |-> "normal", ENABLE_WATERMARK |-> TRUE,
     WATERMARK_TEXT |-> <<"5", "0", "%", ":", " ", "i", "t", "'", "s", " ", "\\", "o", "/">>]

\* WATERMARK_TEXT absent from the configuration reads as its default
Configs ==
    {[STYLE |-> st, ENABLE_WATERMARK |-> wm, WATERMARK_TEXT |-> WATERMARK_TEXT] :
        st \in {"normal", "meme"}, wm \in BOOLEAN} \cup {QuotedConfig}

VideoStream(w, h) == [codec_type |-> "video", width |-> w, height |-> h]

AudioStream == [codec_type |-> "audio", width |-> 0, height |-> 0]

\* ffprobe fails or prints {}; it reports no video stream, or a video stream
\* without width and height (0 for None); a 1920x1080 or a 854x480 source
Probes ==
    { [empty |-> TRUE,  streams |-> <<>>],
      [empty |-> FALSE, streams |-> <<AudioStream>>],
      [empty |-> FALSE, streams |-> <<VideoStream(0, 0)>>],
      [empty |-> FALSE, streams |-> <<AudioStream, VideoStream(1920, 1080)>>],
      [empty |-> FALSE, streams |-> <<VideoStream(854, 480)>>] }

Worlds ==
    {[output_exists |-> FALSE, probe |-> p] : p \in Probes}
        \cup {[output_exists |-> TRUE, probe |-> [empty |-> TRUE, streams |-> <<>>]]}

ClipInit ==
    /\ args \in ClipArgs
    /\ config \in Configs
    /\ world \in Worlds
    /\ video_info = <<>>
    /\ filters = <<>>
    /\ title_lines = <<>>
    /\ current_output = ""
    /\ final_output = ""
    /\ temp_subtitle = "absent"
    /\ cmd = <<>>
    /\ clip_ret = "none"
    /\ clip_pc = "entry"
    /\ input_exists = TRUE
    /\ returncode = "none"
    /\ ChunkIdle
    /\ SubIdle
    /\ TitleIdle
    /\ ParIdle
    /\ PipeIdle

ClipNext ==
    \/ ClipEntry
    \/ BuildLayout
    \/ BuildTitle
    \/ BuildChannel
    \/ BuildWatermark
    \/ BuildSubtitles
    \/ BuildCommand
    \/ RunEncoder

SpecClip == ClipInit /\ [][ClipNext]_vars

-----------------------------------------------------------------------------
(* SpecTitle: _clean_title_text and _split_title_text on bounded inputs *)

MaxCleanLen   == 4
MaxSplitWords == 5

\* a letter, the underscore, a space, an emoji, a symbol, a kept punctuation mark
CleanAlphabet == {"a", "_", " ", "U+1F600", "#", "'"}

CleanTexts == UNION {[1..n -> CleanAlphabet] : n \in 0..MaxCleanLen}

\* words of 1, 5 and 13 characters
SplitVocab == {<<"a">>, Rep("b", 5), Rep("c", 13)}

\* texts of words joined by single spaces, and texts of 3, 12 and 13 spaces
SplitTexts ==
    {Join(ws) : ws \in TextLists(SplitVocab, MaxSplitWords)}
        \cup {Rep(" ", 3), Rep(" ", 12), Rep(" ", 13)}

\* font size, width, meme style: 12, 24, 42 and 50 characters per line in
\* normal style, 17 in meme style
SplitParams ==
    { <<60, 480, FALSE>>, <<60, 1080, FALSE>>, <<60, 1920, FALSE>>, <<60, 2400, FALSE>>,
      <<97, 1920, TRUE>> }

TitleInit ==
    /\ \/ /\ fn_pc = "clean"
          /\ fn_text \in CleanTexts
          /\ fn_font_size = 0
          /\ fn_video_width = 0
          /\ fn_meme_style = FALSE
       \/ /\ fn_pc = "split"
          /\ fn_text \in SplitTexts
          /\ \E p \in SplitParams :
                /\ fn_font_size = p[1]
                /\ fn_video_width = p[2]
                /\ fn_meme_style = p[3]
    /\ fn_result = <<>>
    /\ fn_again = <<>>
    /\ ChunkIdle
    /\ SubIdle
    /\ ClipIdle
    /\ ParIdle
    /\ PipeIdle

TitleNext == CleanTitle \/ CleanTitleAgain \/ SplitTitle

SpecTitle == TitleInit /\ [][TitleNext]_vars

-----------------------------------------------------------------------------
(* SpecPar: two process_clip calls for different clips in one process *)

\* transcripts of the clips: 'a', 'b', 'a' then 'b', and one whose segment
\* has no 'end'
ParTranscripts ==
    { <<[text |-> <<"a">>, start |-> 0, end |-> 720, words |-> <<>>]>>,
      <<[text |-> <<"b">>, start |-> 0, end |-> 720, words |-> <<>>]>>,
      <<[text |-> <<"a">>, start |-> 0, end |-> 720, words |-> <<>>],
        [text |-> <<"b">>, start |-> 600, end |-> 1200, words |-> <<>>]>>,
      <<NoEndSegment>> }

\* both calls are past the channel stage; a file of an earlier run of the
\* process may be left over (it is removed only after an exit with 0)
ParInit ==
    /\ par_data \in {d \in [Calls -> ParTranscripts] : d[1] /= d[2]}
    /\ par_pc = [p \in Calls |-> "subtitles"]
    /\ par_filter = [p \in Calls |-> FALSE]
    /\ par_read = [p \in Calls |-> NotRead]
    /\ par_ret = [p \in Calls |-> "none"]
    /\ par_srt = NoFile
    /\ ChunkIdle
    /\ SubIdle
    /\ ClipIdle
    /\ TitleIdle
    /\ PipeIdle

ParNext ==
    \E p \in Calls :
        \/ ParSubtitles(p)
        \/ ParEncoderStart(p)
        \/ ParEncoderExit(p)

SpecPar == ParInit /\ [][ParNext]_vars

-----------------------------------------------------------------------------
(* SpecPipe: phases 2 and 3 of process_clips on bounded clip lists *)

MaxClips == 3           \* most clips downloaded in phase 1

\* phase 1 has downloaded pipe_n clips, none of them rendered before
PipeInit ==
    /\ pipe_n \in 0..MaxClips
    /\ pipe_subs \in BOOLEAN
    /\ pipe_i = 0
    /\ pipe_subtitle = [k \in 1..pipe_n |-> "unset"]
    /\ pipe_rendered = [k \in 1..pipe_n |-> "none"]
    /\ pipe_pc = "phase2"
    /\ ChunkIdle
    /\ SubIdle
    /\ ClipIdle
    /\ TitleIdle
    /\ ParIdle

PipeNext ==
    \/ StartSubtitles
    \/ ExtractAudioFfmpeg
    \/ ExtractAudioFallback
    \/ TranscribeAudio
    \/ StartRender
    \/ RenderProbe
    \/ RenderEncode

\* process_clips runs in one thread: it takes its next step whenever the
\* call it is in has returned
SpecPipe == PipeInit /\ [][PipeNext]_vars /\ WF_vars(PipeNext)

-----------------------------------------------------------------------------
(* Claims about create_subtitle_file *)

Written == sub_pc = "done" /\ sub_ret = "True"

\* C1: in the cue list that is written, every cue ends no later than the
\* next one starts
C1_NoOverlapWritten ==
    Written =>
        \A i \in 1..(Len(subtitle_chunks) - 1) :
            subtitle_chunks[i].end <= subtitle_chunks[i + 1].start

\* C2: every cue that is written is shown for at least 0.3 s
C2_MinDuration ==
    Written =>
        \A i \in 1..Len(subtitle_chunks) :
            subtitle_chunks[i].end - subtitle_chunks[i].start >= 180

\* C3: no cue that is written has empty or whitespace-only text
C3_NoBlankText ==
    Written =>
        \A i \in 1..Len(subtitle_chunks) : Strip(subtitle_chunks[i].text) /= <<>>

\* C5: the overlap pass goes once, left to right, over the start-sorted list:
\* when the pairs before fix_i are done, a cue that overlapped its successor
\* ends at max(start + 0.3, next start - 0.1), every other end, every start
\* and every text is as the sort left it; (0, 1.2), (1.0, 2.0) gives 0.9
C5_OverlapPass ==
    (sub_pc = "fix" \/ Written) =>
        LET n == Len(sorted_chunks)
            Clamped(i) == /\ i < fix_i
                          /\ i < n
                          /\ sorted_chunks[i].end > sorted_chunks[i + 1].start
        IN  /\ Len(subtitle_chunks) = n
            /\ \A i \in 1..(n - 1) : sorted_chunks[i].start <= sorted_chunks[i + 1].start
            /\ \A i \in 1..n :
                  /\ subtitle_chunks[i].start = sorted_chunks[i].start
                  /\ subtitle_chunks[i].text = sorted_chunks[i].text
                  /\ subtitle_chunks[i].end =
                        IF Clamped(i)
                        THEN Max(sorted_chunks[i].start + 180, sorted_chunks[i + 1].start - 60)
                        ELSE sorted_chunks[i].end
                  /\ ( /\ Clamped(i)
                       /\ sorted_chunks[i].start = 0
                       /\ sorted_chunks[i].end = 720
                       /\ sorted_chunks[i + 1].start = 600 ) => subtitle_chunks[i].end = 540

\* C5 witness: the cues (0, 1.2) and (1.0, 2.0) were adjacent after the sort
\* and the file is written with the first one ending at 0.9
C5_Witness ==
    /\ Written
    /\ \E i \in 1..(Len(sorted_chunks) - 1) :
          /\ sorted_chunks[i].start = 0
          /\ sorted_chunks[i].end = 720
          /\ sorted_chunks[i + 1].start = 600
          /\ subtitle_chunks[i].end = 540

TwoDigits(n) == <<DigitChar(n \div 10), DigitChar(n % 10)>>

ThreeDigits(n) == <<DigitChar(n \div 100), DigitChar((n \div 10) % 10), DigitChar(n % 10)>>

\* HH:MM:SS,mmm of a time of t ticks that is a whole number of milliseconds
ExactStamp(t) ==
    LET ms == (5 * t) \div 3
    IN  TwoDigits(ms \div 3600000) \o <<":">> \o TwoDigits((ms \div 60000) % 60) \o <<":">>
          \o TwoDigits((ms \div 1000) % 60) \o <<",">> \o ThreeDigits(ms % 1000)

\* C6: the file lists the cues in start order, numbered 1..n, each as index
\* line, 'HH:MM:SS,mmm --> HH:MM:SS,mmm' showing the cue's start and end,
\* text line and blank line; 1.234 is written as 00:00:01,234
C6_SrtArtifact ==
    Written =>
        LET n == Len(subtitle_chunks)
        IN  /\ Len(srt_file) = 4 * n
            /\ \A i \in 1..(n - 1) : subtitle_chunks[i].start <= subtitle_chunks[i + 1].start
            /\ \A i \in 1..n :
                  /\ srt_file[4 * i - 3] = Decimal(i)
                  /\ srt_file[4 * i - 2] =
                        ExactStamp(subtitle_chunks[i].start) \o <<" ", "-", "-", ">", " ">>
                            \o ExactStamp(subtitle_chunks[i].end)
                  /\ srt_file[4 * i - 1] = subtitle_chunks[i].text
                  /\ srt_file[4 * i] = <<>>
            /\ seconds_to_srt_time_ms(1234) = <<"0", "0", ":", "0", "0", ":", "0", "1", ",", "2", "3", "4">>
            /\ seconds_to_srt_time_ms(2500) = <<"0", "0", ":", "0", "0", ":", "0", "2", ",", "5", "0", "0">>

-----------------------------------------------------------------------------
(* Claims about _create_smart_chunks *)

\* C4: a word-timed list never ends with a one-word chunk that the chunk
\* before it could have taken while staying within 4 words and 20 characters
C4_NoAbsorbableOrphan ==
    (chunk_pc = "done" /\ Len(chunks) >= 2) =>
        LET n == Len(chunks)
        IN  ~ ( /\ Len(chunks[n]) = 1
                /\ Len(chunks[n - 1]) < MaxChunkWords
                /\ Len(JoinWords(chunks[n - 1] \o chunks[n])) <= MaxChunkChars )

-----------------------------------------------------------------------------
(* Claims about the filter list of process_clip *)

\* the stages of fs that write pad
Producers(fs, pad) == {k \in 1..Len(fs) : fs[k].out = pad}

\* pad, read at position k of fs, is [0:v] or the output of exactly one
\* stage of fs, which stands before k
PadDefined(fs, pad, k) ==
    \/ pad = "0:v"
    \/ /\ Cardinality(Producers(fs, pad)) = 1
       /\ \A p \in Producers(fs, pad) : p < k

PadsDefined(fs) ==
    \A k \in 1..Len(fs) : \A j \in 1..Len(fs[k].ins) : PadDefined(fs, fs[k].ins[j], k)

HasStage(fs, op) == \E k \in 1..Len(fs) : fs[k].op = op

IsWatermark(st) == st.op = "drawtext" /\ st.arg = "watermark"

IsTitle(st) == st.op = "drawtext" /\ st.arg \in {"normal", "meme"}

\* the cue list create_subtitle_file derives from the transcript
CueList(data) == create_subtitle_file(data).cues

\* C7: at every point of the construction, and in the list handed to the
\* encoder, each pad a stage reads is [0:v] or is written by exactly one
\* stage that stands earlier in the list; the pad given to -map is defined in
\* the same way, and it is the only video pad mapped
C7_PadsDefined ==
    /\ PadsDefined(filters)
    /\ cmd /= <<>> =>
          /\ PadsDefined(cmd.filter_complex)
          /\ PadDefined(cmd.filter_complex, cmd.maps[1], Len(cmd.filter_complex) + 1)
          /\ Cardinality({j \in 1..Len(cmd.maps) : cmd.maps[j] /= "0:a"}) = 1

\* C7 witness: a rendered clip with blurred background, a crop, three title
\* lines, the watermark and the captions
C7_Witness ==
    /\ clip_pc = "done"
    /\ clip_ret = "output_path"
    /\ cmd /= <<>>
    /\ args.background_type = "blurred"
    /\ HasStage(cmd.filter_complex, "crop")
    /\ \E k \in 1..Len(cmd.filter_complex) : cmd.filter_complex[k].out = "main_cropped"
    /\ Len(title_lines) = 3
    /\ \E k \in 1..Len(cmd.filter_complex) : IsWatermark(cmd.filter_complex[k])
    /\ cmd.maps[1] = "final"

\* C8: with the watermark disabled and no caption cue, the list handed to the
\* encoder has no watermark stage and no subtitles stage, and the mapped pad
\* is the channel stage's output
C8_Minimal ==
    (cmd /= <<>> /\ ~config.ENABLE_WATERMARK /\ CueList(args.subtitle_data) = <<>>) =>
        /\ \A k \in 1..Len(cmd.filter_complex) : ~IsWatermark(cmd.filter_complex[k])
        /\ ~HasStage(cmd.filter_complex, "subtitles")
        /\ cmd.maps[1] = "channel_added"

\* C9: a subtitles stage is in the list only if captions are enabled and the
\* cue list derived from the transcript is not empty
C9_SubtitlesOnlyWithCues ==
    HasStage(filters, "subtitles") =>
        /\ args.enable_subtitles
        /\ CueList(args.subtitle_data) /= <<>>

\* the group of a stage: 1 background, 2 main video, 3 compose, 4 title,
\* 5 channel, 6 watermark, 7 subtitles
Group(st) ==
    IF st.op \in {"gblur", "eq", "color"} THEN 1
    ELSE IF st.op = "scale" THEN (IF st.arg = "increase" THEN 1 ELSE 2)
    ELSE IF st.op = "crop" THEN (IF st.arg = "frame" THEN 1 ELSE 2)
    ELSE IF st.op \in {"overlay", "pad"} THEN 3
    ELSE IF IsTitle(st) THEN 4
    ELSE IF st.op = "drawtext" /\ st.arg = "channel" THEN 5
    ELSE IF IsWatermark(st) THEN 6
    ELSE 7

\* C10: the groups stand in the fixed order in the list, a crop of the main
\* video before its scale, and the title stages are the wrapped lines, one
\* stage per line in line order
C10_StageOrder ==
    LET titles == SelectSeq(filters, IsTitle)
    IN  /\ \A i, j \in 1..Len(filters) : i < j => Group(filters[i]) <= Group(filters[j])
        /\ \A i, j \in 1..Len(filters) :
              (filters[i].out = "main_cropped" /\ filters[j].out = "main_scaled") => i < j
        /\ Len(titles) = Len(title_lines)
        /\ \A k \in 1..Len(titles) : titles[k].text = escape_text(title_lines[k])

\* C10 witness: the list handed to the encoder has stages of all seven
\* groups, two of them title stages
C10_Witness ==
    /\ clip_pc = "encode"
    /\ {Group(cmd.filter_complex[k]) : k \in 1..Len(cmd.filter_complex)} = 1..7
    /\ Len(title_lines) = 2
    /\ Len(SelectSeq(cmd.filter_complex, IsTitle)) = 2

\* the number of stages of fs that satisfy Test
Count(fs, Test(_)) == Len(SelectSeq(fs, Test))

IsScale(st) == st.op = "scale"

IsPad(st) == st.op = "pad"

IsChannel(st) == st.op = "drawtext" /\ st.arg = "channel"

\* C11: solid background, crop disabled, a title of one line: once the
\* channel stage is appended the list is scale, pad with the solid fill, one
\* title drawtext at the single-line row, the channel drawtext, followed by
\* nothing but the watermark and subtitles stages that were asked for; it has
\* no gblur, eq, crop or overlay stage
C11_SolidScenario ==
    ( /\ clip_pc \in {"watermark", "subtitles", "command", "encode"}
      /\ args.background_type = "solid"
      /\ ~args.enable_crop
      /\ Len(title_lines) = 1 ) =>
        /\ Len(filters) >= 4
        /\ IsScale(filters[1]) /\ filters[1].ins = <<"0:v">>
        /\ IsPad(filters[2]) /\ filters[2].arg = "solid"
        /\ IsTitle(filters[3]) /\ filters[3].y = <<"", 200>>
        /\ IsChannel(filters[4])
        /\ Count(filters, IsScale) = 1
        /\ Count(filters, IsPad) = 1
        /\ Count(filters, IsTitle) = 1
        /\ Count(filters, IsChannel) = 1
        /\ \A k \in 1..Len(filters) : filters[k].op \notin {"gblur", "eq", "crop", "overlay", "color"}
        /\ \A k \in 5..Len(filters) : IsWatermark(filters[k]) \/ filters[k].op = "subtitles"

\* C11 witness: 'GG WP' on a source without probed dimensions (1080x1920),
\* solid background, crop disabled, no watermark, no captions: four stages
\* are handed to the encoder
C11_Witness ==
    /\ clip_pc = "encode"
    /\ args.clip.title = GGWP
    /\ SourceSize(video_info) = [width |-> 1080, height |-> 1920]
    /\ args.background_type = "solid"
    /\ ~args.enable_crop
    /\ Len(cmd.filter_complex) = 4
    /\ cmd.filter_complex[3].text = GGWP

-----------------------------------------------------------------------------
(* Claims about the title functions *)

\* the width _split_title_text wraps to in the pending or finished call
FnMaxChars ==
    max_chars_per_line(fn_font_size,
                       IF fn_video_width = 1080 THEN VIDEO_WIDTH ELSE fn_video_width,
                       fn_meme_style)

\* C12: _split_title_text returns at most 3 lines, none longer than the
\* computed characters per line, which lies within 12..50
C12_WrapperBound ==
    fn_pc = "split_done" =>
        /\ Len(fn_result) <= 3
        /\ FnMaxChars \in 12..50
        /\ \A k \in 1..Len(fn_result) : Len(fn_result[k]) <= FnMaxChars

\* C12 witness: more than three lines were packed at 12 characters per
\* line, a 13-character word was cut to 12, and the third line returned is
\* the shortened copy of the second
C12_Witness ==
    /\ fn_pc = "split_done"
    /\ FnMaxChars = 12
    /\ Len(Split(fn_text)) = 5
    /\ Len(fn_result) = 3
    /\ fn_result[1] = Rep("c", 9) \o Ellipsis
    /\ Len(fn_result[3]) = 12

\* C13: _split_title_text returns at least one line for every text
C13_AtLeastOneLine ==
    fn_pc = "split_done" => Len(fn_result) >= 1

\* C14: cleaning a cleaned title changes nothing
C14_Idempotent ==
    fn_pc = "recleaned" => fn_again = fn_result

\* C14 witness: the first cleaning removed a symbol and the spaces around
\* it, and the result was cleaned again
C14_Witness ==
    /\ fn_pc = "recleaned"
    /\ fn_text = <<"a", " ", "#", " ">>
    /\ fn_result = <<"a">>

\* C15: a cleaned title holds only letters, digits, single spaces and the
\* marks - . , ! ? ( ) ' ", and neither starts nor ends with a space
C15_OnlyAllowed ==
    fn_pc \in {"cleaned", "recleaned"} =>
        /\ \A k \in 1..Len(fn_result) :
              fn_result[k] \in Letters \cup Digits
                                \cup {" ", "-", ".", ",", "!", "?", "(", ")", "'", "\""}
        /\ fn_result /= <<>> => (fn_result[1] /= " " /\ Last(fn_result) /= " ")
        /\ \A k \in 1..(Len(fn_result) - 1) : ~(fn_result[k] = " " /\ fn_result[k + 1] = " ")

-----------------------------------------------------------------------------
(* Claims about the text written into drawtext *)

\* what the four replacements, in their order, make of one character
EscapedChar(c) ==
    IF c = "\\" THEN <<"\\", "\\">>
    ELSE IF c = "'" THEN <<"'", "\\", "'", "'">>
    ELSE IF c = ":" THEN <<"\\", ":">>
    ELSE IF c = "%" THEN <<"\\", "%">>
    ELSE <<c>>

EscapedText(raw) == Flatten([k \in 1..Len(raw) |-> EscapedChar(raw[k])])

\* every : and every % of text stands right behind a backslash
Guarded(text) ==
    \A j \in 1..Len(text) : text[j] \in {":", "%"} => (j > 1 /\ text[j - 1] = "\\")

\* C16: the text of every title stage (normal and meme), of the channel
\* stage and of the watermark stage is its raw text with \ doubled, then '
\* turned into '\'', then : into \: and % into \%; every : and % in it
\* stands behind a backslash
C16_UniformEscaping ==
    LET titles == SelectSeq(filters, IsTitle)
    IN  /\ \A k \in 1..Len(titles) :
              k <= Len(title_lines) => titles[k].text = EscapedText(title_lines[k])
        /\ \A k \in 1..Len(filters) :
              /\ IsChannel(filters[k]) =>
                    filters[k].text = EscapedText(ChannelPrefix \o args.clip.broadcaster_name)
              /\ IsWatermark(filters[k]) =>
                    filters[k].text = EscapedText(config.WATERMARK_TEXT)
              /\ filters[k].op = "drawtext" => Guarded(filters[k].text)

\* C16 witness: a title with an apostrophe, a channel name and a watermark
\* text with backslash, apostrophe, colon and percent sign are in the list
\* handed to the encoder
C16_Witness ==
    /\ clip_pc = "encode"
    /\ args.clip = QuotedClip
    /\ config = QuotedConfig
    /\ \E k \in 1..Len(cmd.filter_complex) :
          /\ IsTitle(cmd.filter_complex[k])
          /\ cmd.filter_complex[k].text = <<"i", "t", "'", "\\", "'", "'", "s", " ", "5", " ", "a">>
    /\ \E k \in 1..Len(cmd.filter_complex) :
          /\ IsChannel(cmd.filter_complex[k])
          /\ cmd.filter_complex[k].text =
                ChannelPrefix \o <<"a", "\\", ":", "\\", "%", "\\", "\\", "'", "\\", "'", "'">>
    /\ \E k \in 1..Len(cmd.filter_complex) :
          /\ IsWatermark(cmd.filter_complex[k])
          /\ cmd.filter_complex[k].text =
                <<"5", "0", "\\", "%", "\\", ":", " ", "i", "t", "'", "\\", "'", "'", "s", " ",
                  "\\", "\\", "o", "/">>

-----------------------------------------------------------------------------
(* Claims about the error handling of create_subtitle_file *)

\* C17: called with an empty segment list, create_subtitle_file ends with
\* an empty cue list and reports success
C17_EmptyIsSuccess ==
    (sub_pc = "done" /\ subtitle_data = <<>>) =>
        /\ subtitle_chunks = <<>>
        /\ sub_ret = "True"

BackwardWord(w) == w.end < w.start

MissingTiming(segment) == "start" \notin DOMAIN segment \/ "end" \notin DOMAIN segment

HasMalformed(data) ==
    \E k \in 1..Len(data) :
        \/ MissingTiming(data[k])
        \/ \E j \in 1..Len(data[k].words) : BackwardWord(data[k].words[j])

\* the words of a segment that are well formed
GoodWords(segment) == SelectSeq(segment.words, LAMBDA w : ~BackwardWord(w))

RECURSIVE WithoutMalformed(_)
\* the transcript without its malformed units: segments that miss a timing
\* field, words that end before they start, segments left with no word
WithoutMalformed(data) ==
    IF data = <<>> THEN <<>>
    ELSE LET segment == Head(data)
             rest    == WithoutMalformed(Tail(data))
         IN  IF MissingTiming(segment) THEN rest
             ELSE IF segment.words /= <<>> /\ GoodWords(segment) = <<>> THEN rest
             ELSE <<[segment EXCEPT !.words = GoodWords(segment)]>> \o rest

\* C18: a transcript with a malformed unit is written as the transcript
\* without that unit is: the call succeeds, and the cues are those of the
\* well-formed words and segments
C18_MalformedSkipped ==
    (sub_pc = "done" /\ HasMalformed(subtitle_data)) =>
        /\ sub_ret = "True"
        /\ subtitle_chunks = FixFrom(SortByStart(CollectCues(WithoutMalformed(subtitle_data))), 1)

-----------------------------------------------------------------------------
(* Claims about the error handling of process_clip *)

\* C19: a title that is empty after cleaning is drawn as a default text that
\* is not empty, and the call goes on to the encoder
C19_DefaultTitle ==
    ( /\ clip_pc \in {"channel", "watermark", "subtitles", "command", "encode"}
      /\ clean_title_text(args.clip.title) = <<>> ) =>
        /\ Count(filters, IsTitle) >= 1
        /\ \A k \in 1..Len(filters) : IsTitle(filters[k]) => filters[k].text /= <<>>

\* the probe gave no width and height of a video stream
DimensionsUnknown(probe) == probe.empty \/ ProbedSize(probe).width = 0 \/ ProbedSize(probe).height = 0

\* C20: when the source dimensions cannot be determined process_clip goes
\* on with 1080x1920: it ends only after the plan was built and the encoder
\* was run
C20_DefaultDimensions ==
    ( /\ clip_pc = "done"
      /\ ~world.output_exists
      /\ DimensionsUnknown(world.probe) ) =>
        /\ cmd /= <<>>
        /\ SourceSize(video_info) = [width |-> 1080, height |-> 1920]

-----------------------------------------------------------------------------
(* Claims about the chunks of the two chunkers *)

\* C23: every chunk of a word-timed list has at most 4 words
C23_AtMostFourWords ==
    chunk_pc = "done" => \A c \in 1..Len(chunks) : Len(chunks[c]) <= 4

\* C24: no chunk of a word-timed list holds two consecutive words that are
\* more than 0.2 s apart
C24_PauseBreaks ==
    chunk_pc = "done" =>
        \A c \in 1..Len(chunks) : \A k \in 1..(Len(chunks[c]) - 1) :
            chunks[c][k + 1].start - chunks[c][k].end <= 120

\* C25: a chunk of two or more words of a word-timed list has at most 20
\* characters of text, and a word of more than 20 characters is whole and
\* alone in its chunk
C25_CharBound ==
    chunk_pc = "done" =>
        \A c \in 1..Len(chunks) :
            /\ Len(chunks[c]) >= 2 => Len(JoinWords(chunks[c])) <= 20
            /\ \A k \in 1..Len(chunks[c]) :
                  Len(Strip(chunks[c][k].word)) > 20 =>
                      /\ Len(chunks[c]) = 1
                      /\ \E i \in 1..Len(words_data) : words_data[i] = chunks[c][k]

\* C25 witness: the 21-character word stands alone between other chunks,
\* and two 9-character words share a chunk of 19 characters
C25_Witness ==
    /\ chunk_pc = "done"
    /\ \E c \in 1..Len(chunks) : Len(chunks[c]) = 1 /\ chunks[c][1].word = Rep("c", 21)
    /\ \E c \in 1..Len(chunks) : Len(chunks[c]) = 2 /\ Len(JoinWords(chunks[c])) = 19

\* C27: the chunks of either chunker are non-empty and, put one after the
\* other, are the input list
C27_Partition ==
    chunk_pc = "done" =>
        /\ Flatten(chunks) = words_data
        /\ \A c \in 1..Len(chunks) : chunks[c] /= <<>>
        /\ Flatten(text_chunks) = text_words
        /\ \A c \in 1..Len(text_chunks) : text_chunks[c] /= <<>>

\* C27 witness: five timed words were returned as the one phrase they are
C27_Witness ==
    /\ chunk_pc = "done"
    /\ Len(words_data) = 5
    /\ chunks = <<words_data>>

-----------------------------------------------------------------------------
(* Claims about the collapse of _split_title_text *)

\* the lines of the greedy packing, before the limit of 3 lines is applied
PackedLines ==
    LET p == PackWords(Split(fn_text), 1, <<>>, <<>>, FnMaxChars)
    IN  IF p.current_line /= <<>> THEN Append(p.lines, p.current_line) ELSE p.lines

\* C26: when the packing gives more than 3 lines, 2 lines are returned: the
\* first packed line, and the second packed line cut and ended with '...'
C26_CollapseToTwo ==
    (fn_pc = "split_done" /\ Len(fn_text) > FnMaxChars /\ Len(PackedLines) > 3) =>
        /\ Len(fn_result) = 2
        /\ fn_result[1] = PackedLines[1]
        /\ fn_result[2] = Prefix(PackedLines[2], FnMaxChars - 3) \o Ellipsis

-----------------------------------------------------------------------------
(* Claims about the overlap pass *)

\* C28: during and after the overlap pass no cue ends later than it did
\* when the sort left it
C28_OnlyShortens ==
    (sub_pc = "fix" \/ Written) =>
        \A i \in 1..Len(subtitle_chunks) : subtitle_chunks[i].end <= sorted_chunks[i].end

-----------------------------------------------------------------------------
(* Claims about the files and the wrap width of process_clip *)

\* C29: the raw input file is gone only when the encoder has exited with
\* status 0; when the rendered output was there already, the probe failed,
\* or the encoder failed or timed out, it is still on disk, and the failures
\* return None
C29_InputRemovedOnSuccess ==
    /\ ~input_exists => (clip_pc = "done" /\ returncode = "zero" /\ clip_ret = "output_path")
    /\ clip_pc = "done" =>
          /\ world.output_exists => (input_exists /\ clip_ret = "output_path" /\ returncode = "none")
          /\ (~world.output_exists /\ world.probe.empty) =>
                (input_exists /\ clip_ret = "None" /\ returncode = "none")
          /\ returncode \in {"nonzero", "timeout"} => (input_exists /\ clip_ret = "None")

\* C29 witness: the encoder exited with 0, the call returned the output
\* path and the raw file has been removed
C29_Witness ==
    /\ clip_pc = "done"
    /\ returncode = "zero"
    /\ clip_ret = "output_path"
    /\ ~input_exists

\* C30: the title is wrapped to the width VIDEO_WIDTH of the configuration,
\* whatever the size of the source
C30_WrapWidthConfigured ==
    clip_pc \in {"channel", "watermark", "subtitles", "command", "encode"} =>
        LET use_meme_style == config.STYLE = "meme"
            font_size == TitleFontSize(use_meme_style, SourceSize(video_info).height)
        IN  title_lines = split_title_text(clean_title_text(args.clip.title), font_size,
                                           VIDEO_WIDTH, use_meme_style, VIDEO_WIDTH)

-----------------------------------------------------------------------------
(* Claims about process_clip calls running side by side *)

\* C21: whatever the interleaving of two process_clip calls for different
\* clips with captions, the encoder of each call finds its subtitle file and
\* the file holds the cues of its own clip
C21_NoInterference ==
    \A p \in DOMAIN par_pc :
        (par_pc[p] \in {"running", "done"} /\ par_filter[p]) =>
            /\ par_read[p].found
            /\ par_read[p].lines = create_subtitle_file(par_data[p]).file

-----------------------------------------------------------------------------
(* Claims about the termination of process_clips *)

\* C22: every external call is bounded by a timeout, so process_clips
\* returns even when an external program or the transcriber never returns
C22_Terminates == <>(pipe_pc = "done")

=============================================================================
